---- MODULE Spec2Model ----
(***************************************************************************)
(* Model of pdf_processor_server.py: the call_tool dispatcher and the      *)
(* three handlers extract_pdf_text, extract_pdf_metadata and               *)
(* extract_pdf_section, each of which validates its arguments, runs one    *)
(* external process (pdftotext or pdfinfo) and maps the exit code, stdout  *)
(* and stderr to a result dict.                                            *)
(*                                                                         *)
(* A Python str is a sequence of one-character strings; a literal of the   *)
(* source that is never split is one element (a token) of such a sequence. *)
(* A Python dict is a TLA+ record or function with the same keys.          *)
(***************************************************************************)
EXTENDS Integers, Sequences, FiniteSets, TLC

VARIABLES pc, call, runs, child, result, exc

vars == <<pc, call, runs, child, result, exc>>

(***************************************************************************)
(* Bounds of the model.                                                    *)
(***************************************************************************)
\* longest stdout of pdftotext, in characters
MaxOut == 6
\* longest stdout of pdfinfo, in characters
MaxInfo == 5
\* max_lines ranges over -MaxLines .. MaxLines
MaxLines == 2
\* start_page and end_page range over 0 .. MaxPage
MaxPage == 2

\* timeout= of the three subprocess.run calls, in seconds
TextTimeout == 60
MetaTimeout == 30
SectionTimeout == 60

(***************************************************************************)
(* Strings.                                                                *)
(***************************************************************************)
NL == "\n"

\* all strings over the alphabet A of length at most n
Strings(A, n) == UNION {[1..k -> A] : k \in 0..n}

Min(a, b) == IF a < b THEN a ELSE b
Max(a, b) == IF a > b THEN a ELSE b

\* s[i:] and s[:i] of Python for 0 <= i <= len(s)  (i counts characters)
Drop(s, i) == SubSeq(s, i + 1, Len(s))
Take(s, i) == SubSeq(s, 1, i)

\* lines[:k] : a negative k counts from the end
SliceTo(s, k) ==
  IF k >= 0 THEN Take(s, Min(k, Len(s))) ELSE Take(s, Max(Len(s) + k, 0))

\* s.find(c), 0-based, -1 when absent
RECURSIVE FindFrom(_, _, _)
FindFrom(s, c, i) ==
  IF i > Len(s) THEN -1
  ELSE IF s[i] = c THEN i - 1
  ELSE FindFrom(s, c, i + 1)

Find(s, c) == FindFrom(s, c, 1)

\* s.rfind(c), 0-based, -1 when absent
RECURSIVE RFindFrom(_, _, _)
RFindFrom(s, c, i) ==
  IF i < 1 THEN -1
  ELSE IF s[i] = c THEN i - 1
  ELSE RFindFrom(s, c, i - 1)

RFind(s, c) == RFindFrom(s, c, Len(s))

\* s.split(sep): the list of the segments between the separators
RECURSIVE Split(_, _)
Split(s, sep) ==
  LET i == Find(s, sep)
  IN  IF i < 0 THEN <<s>>
      ELSE <<Take(s, i)>> \o Split(Drop(s, i + 1), sep)

\* sep.join(parts)
RECURSIVE Join(_, _)
Join(parts, sep) ==
  IF Len(parts) = 0 THEN <<>>
  ELSE IF Len(parts) = 1 THEN parts[1]
  ELSE parts[1] \o <<sep>> \o Join(Tail(parts), sep)

\* s.split(sep, 1): at most one split, at the first separator
Split1(s, sep) ==
  LET i == Find(s, sep)
  IN  IF i < 0 THEN <<s>> ELSE <<Take(s, i), Drop(s, i + 1)>>

IsSpace(c) == c \in {" ", NL}

\* s.strip(): leading and trailing whitespace removed
RECURSIVE LStrip(_)
LStrip(s) ==
  IF Len(s) > 0 /\ IsSpace(s[1]) THEN LStrip(Tail(s)) ELSE s

RECURSIVE RStrip(_)
RStrip(s) ==
  IF Len(s) > 0 /\ IsSpace(s[Len(s)]) THEN RStrip(Take(s, Len(s) - 1)) ELSE s

Strip(s) == RStrip(LStrip(s))

\* c.lower() for the characters of the model
LowerChar(c) ==
  CASE c = "P" -> "p"
    [] c = "D" -> "d"
    [] c = "F" -> "f"
    [] OTHER -> c

Lower(s) == [i \in 1..Len(s) |-> LowerChar(s[i])]

(***************************************************************************)
(* Values of the arguments mapping.  A value is absent (no such key, or    *)
(* None), an int or a str; the three fields are always present so that any *)
(* two values can be compared.                                             *)
(***************************************************************************)
Absent == [t |-> "absent", i |-> 0, s |-> <<>>]
IntV(n) == [t |-> "int", i |-> n, s |-> <<>>]
StrV(str) == [t |-> "str", i |-> 0, s |-> str]

\* the truth value of a Python object: None, 0 and "" are falsy
Truthy(v) ==
  CASE v.t = "absent" -> FALSE
    [] v.t = "int" -> v.i # 0
    [] v.t = "str" -> Len(v.s) > 0

(***************************************************************************)
(* pathlib: Path(file_path).expanduser().resolve(), .suffix                *)
(***************************************************************************)
Home == <<"/", "h">>
Cwd == <<"/", "w">>

Expanduser(p) ==
  IF Len(p) > 0 /\ p[1] = "~" /\ (Len(p) = 1 \/ p[2] = "/")
  THEN Home \o Tail(p)
  ELSE p

\* an absolute path is kept, a relative one is taken from the working directory
Resolve(p) ==
  LET q == Expanduser(p)
  IN  IF Len(q) > 0 /\ q[1] = "/" THEN q ELSE Cwd \o <<"/">> \o q

\* Path.name: the final component
Name(p) == Drop(p, RFind(p, "/") + 1)

\* Path.suffix: the final component from its last dot, unless that dot is the
\* first or the last character of the component
Suffix(p) ==
  LET name == Name(p)
      i == RFind(name, ".")
  IN  IF 0 < i /\ i < Len(name) - 1 THEN Drop(name, i) ELSE <<>>

DotPdf == <<".", "p", "d", "f">>

\* The two path checks every handler starts with (lines 98-104, 141-147,
\* 180-186): the error dict to return, or <<>> when both checks pass.
\* (variant: the exists() check left out)
PathCheckSkipsExists(file_path, exists) ==
  IF Lower(Suffix(Resolve(file_path))) # DotPdf
  THEN [error |-> <<"File must be a PDF">>]
  ELSE <<>>

PathCheck(file_path, exists) ==
  IF ~exists
  THEN [error |-> <<"File not found: ">> \o Resolve(file_path)]
  ELSE IF ~(Lower(Suffix(Resolve(file_path))) = DotPdf)
  THEN [error |-> <<"File must be a PDF">>]
  ELSE <<>>

(***************************************************************************)
(* The tool catalog and the command lines.                                 *)
(***************************************************************************)
list_tools == <<"extract_pdf_text", "extract_pdf_metadata", "extract_pdf_section">>

ToolNames == {list_tools[i] : i \in DOMAIN list_tools}

\* str(n) of an int, as one token
Str(n) == ToString(n)

\* the args= list of a subprocess.run call: one string per argument
TextArgv(file_path) == << <<"pdftotext">>, Resolve(file_path), <<"-">> >>

MetaArgv(file_path) == << <<"pdfinfo">>, Resolve(file_path) >>

SectionArgv(file_path, start_page, end_page) ==
  << <<"pdftotext">>, <<"-f">>, <<Str(start_page)>>, <<"-l">>, <<Str(end_page)>>,
     Resolve(file_path), <<"-">> >>

\* repr() of a list of strings
Repr(argv) ==
  <<"[">> \o Join([i \in 1..Len(argv) |-> <<"'">> \o argv[i] \o <<"'">>], ", ")
          \o <<"]">>

\* what a handler does up to its subprocess.run call
Return(d) == [kind |-> "return", value |-> d, exc |-> "none", timeout |-> 0]
Raise(e) == [kind |-> "raise", value |-> <<>>, exc |-> e, timeout |-> 0]
Run(argv, t) == [kind |-> "run", value |-> argv, exc |-> "none", timeout |-> t]

InstallHint ==
  " not found. Install with: brew install poppler (macOS) or apt-get install poppler-utils (Linux)"

\* str(e) of subprocess.TimeoutExpired
TimeoutText(argv, t) ==
  <<"Command '">> \o Repr(argv) \o <<"' timed out after ", Str(t), " seconds">>

(***************************************************************************)
(* What subprocess.run did, as the handler sees it: it returned a          *)
(* CompletedProcess, or raised TimeoutExpired, FileNotFoundError or some   *)
(* other exception with text msg.                                          *)
(***************************************************************************)
Completed(rc, out, err) ==
  [how |-> "completed", returncode |-> rc, stdout |-> out, stderr |-> err, msg |-> <<>>]

Raised(how, msg) ==
  [how |-> how, returncode |-> 0, stdout |-> <<>>, stderr |-> <<>>, msg |-> msg]

SliceTypeError == <<"slice indices must be integers or None or have an __index__ method">>

(***************************************************************************)
(* extract_pdf_text                                                        *)
(***************************************************************************)
\* lines 98-112: up to the subprocess.run call
extract_pdf_text(file_path, max_lines, exists) ==
  IF file_path.t # "str" THEN Raise("TypeError")
  ELSE IF PathCheck(file_path.s, exists) # <<>>
  THEN Return(PathCheck(file_path.s, exists))
  ELSE Run(TextArgv(file_path.s), TextTimeout)

\* lines 120-121: the first max_lines lines of text (max_lines an int)
\* (variant: one line too many)
TruncateOffByOne(text, max_lines) ==
  Join(SliceTo(Split(text, NL), max_lines + 1), NL)

Truncate(text, max_lines) ==
  Join(SliceTo(Split(text, NL), max_lines), NL)

\* line 115
\* (variant: stdout reported in place of stderr)
TextFailureUsesStdout(file_path, ran) ==
  [error |-> <<"PDF extraction failed: ">> \o ran.stdout]

TextFailure(file_path, ran) ==
  [error |-> <<"PDF extraction failed: ">> \o ran.stderr]

\* lines 131-134
\* (variant: no FileNotFoundError clause, the generic wrapping)
TextToolMissingGeneric(file_path) ==
  [error |-> <<"Error extracting PDF: ", "[Errno 2] No such file or directory: 'pdftotext'">>]

TextToolMissing(file_path) ==
  [error |-> <<"pdftotext", InstallHint>>]

\* lines 114-136: from the return of subprocess.run
extract_pdf_text_result(file_path, max_lines, ran) ==
  CASE ran.how = "TimeoutExpired" ->
         [error |-> <<"PDF extraction timed out">>]
    [] ran.how = "FileNotFoundError" -> TextToolMissing(file_path)
    [] ran.how = "Exception" ->
         [error |-> <<"Error extracting PDF: ">> \o ran.msg]
    [] ran.how = "completed" ->
         IF ran.returncode # 0 THEN TextFailure(file_path, ran)
         ELSE IF Truthy(max_lines) /\ max_lines.t # "int"
         THEN [error |-> <<"Error extracting PDF: ">> \o SliceTypeError]
         ELSE LET text == IF Truthy(max_lines)
                          THEN Truncate(ran.stdout, max_lines.i)
                          ELSE ran.stdout
              IN  [success |-> TRUE,
                   file_path |-> Resolve(file_path),
                   text |-> text,
                   lines |-> Len(Split(text, NL))]

(***************************************************************************)
(* extract_pdf_metadata                                                    *)
(***************************************************************************)
\* lines 141-155: up to the subprocess.run call
extract_pdf_metadata(file_path, exists) ==
  IF file_path.t # "str" THEN Raise("TypeError")
  ELSE IF PathCheck(file_path.s, exists) # <<>>
  THEN Return(PathCheck(file_path.s, exists))
  ELSE Run(MetaArgv(file_path.s), MetaTimeout)

\* lines 164-165: the key and the value of a line that holds a colon
\* (variant: split on the last colon)
MetaEntryLastColon(line) ==
  LET i == RFind(line, ":")
  IN  [key |-> Strip(Take(line, i)), value |-> Strip(Drop(line, i + 1))]

MetaEntry(line) ==
  LET kv == Split1(line, ":")
  IN  [key |-> Strip(kv[1]), value |-> Strip(kv[2])]

\* metadata[key] = value
DictSet(d, key, value) ==
  [k \in DOMAIN d \cup {key} |-> IF k = key THEN value ELSE d[k]]

\* lines 162-165: the loop over the lines, from the dict built so far
RECURSIVE MetaLoop(_, _)
MetaLoop(lines, metadata) ==
  IF Len(lines) = 0 THEN metadata
  ELSE IF Find(lines[1], ":") >= 0
  THEN MetaLoop(Tail(lines),
                DictSet(metadata, MetaEntry(lines[1]).key, MetaEntry(lines[1]).value))
  ELSE MetaLoop(Tail(lines), metadata)

\* lines 161-165
ParseMetadata(stdout) == MetaLoop(Split(stdout, NL), <<>>)

\* line 158
MetaFailure(file_path, ran) ==
  [error |-> <<"Failed to extract metadata: ">> \o ran.stderr]

\* lines 168-171
MetaToolMissing(file_path) ==
  [error |-> <<"pdfinfo", InstallHint>>]

\* lines 157-173: from the return of subprocess.run; TimeoutExpired has no
\* handler of its own here and reaches "except Exception"
extract_pdf_metadata_result(file_path, ran) ==
  CASE ran.how = "FileNotFoundError" -> MetaToolMissing(file_path)
    [] ran.how \in {"TimeoutExpired", "Exception"} ->
         [error |-> <<"Error extracting metadata: ">> \o ran.msg]
    [] ran.how = "completed" ->
         IF ran.returncode # 0 THEN MetaFailure(file_path, ran)
         ELSE [success |-> TRUE,
               file_path |-> Resolve(file_path),
               metadata |-> ParseMetadata(ran.stdout)]

(***************************************************************************)
(* extract_pdf_section                                                     *)
(***************************************************************************)
\* a < b of Python on two argument values: a TypeError unless both are ints
Comparable(a, b) == a.t = "int" /\ b.t = "int"

\* line 188, for ints
\* (variant: pages counted from 0)
BadPageRangeFromZero(start_page, end_page) ==
  start_page < 0 \/ end_page < start_page

BadPageRange(start_page, end_page) ==
  start_page < 1 \/ end_page < start_page

\* lines 180-205: up to the subprocess.run call.  "start_page < 1" is
\* evaluated first and "end_page < start_page" only when it is false.
extract_pdf_section(file_path, start_page, end_page, exists) ==
  IF file_path.t # "str" THEN Raise("TypeError")
  ELSE IF PathCheck(file_path.s, exists) # <<>>
  THEN Return(PathCheck(file_path.s, exists))
  ELSE IF start_page.t # "int" THEN Raise("TypeError")
  ELSE IF start_page.i >= 1 /\ ~Comparable(end_page, start_page)
  THEN Raise("TypeError")
  ELSE IF BadPageRange(start_page.i, IF end_page.t = "int" THEN end_page.i ELSE 0)
  THEN Return([error |-> <<"Invalid page range">>])
  ELSE Run(SectionArgv(file_path.s, start_page.i, end_page.i), SectionTimeout)

\* line 208
\* (variant: the exit code is not tested)
SectionFailureIgnored(file_path, ran) ==
  [success |-> TRUE,
   file_path |-> Resolve(file_path),
   pages |-> <<"1", "-", "1">>,
   text |-> ran.stdout]

SectionFailure(file_path, ran) ==
  [error |-> <<"PDF extraction failed: ">> \o ran.stderr]

\* lines 216-219
SectionToolMissing(file_path) ==
  [error |-> <<"pdftotext", InstallHint>>]

\* lines 207-221: from the return of subprocess.run; TimeoutExpired has no
\* handler of its own here and reaches "except Exception"
extract_pdf_section_result(file_path, start_page, end_page, ran) ==
  CASE ran.how = "FileNotFoundError" -> SectionToolMissing(file_path)
    [] ran.how \in {"TimeoutExpired", "Exception"} ->
         [error |-> <<"Error extracting PDF: ">> \o ran.msg]
    [] ran.how = "completed" ->
         IF ran.returncode # 0 THEN SectionFailure(file_path, ran)
         ELSE [success |-> TRUE,
               file_path |-> Resolve(file_path),
               pages |-> <<Str(start_page), "-", Str(end_page)>>,
               text |-> ran.stdout]

(***************************************************************************)
(* call_tool                                                               *)
(***************************************************************************)
\* arguments[key]: a KeyError when the key is absent
HasKeys(arguments, keys) == \A k \in keys : arguments[k].t # "absent"

\* lines 82-93: the dispatch, up to the handler's subprocess.run call
call_tool(name, arguments, exists) ==
  CASE name = "extract_pdf_text" ->
         IF ~HasKeys(arguments, {"file_path"}) THEN Raise("KeyError")
         ELSE extract_pdf_text(arguments.file_path, arguments.max_lines, exists)
    [] name = "extract_pdf_metadata" ->
         IF ~HasKeys(arguments, {"file_path"}) THEN Raise("KeyError")
         ELSE extract_pdf_metadata(arguments.file_path, exists)
    [] name = "extract_pdf_section" ->
         IF ~HasKeys(arguments, {"file_path", "start_page", "end_page"})
         THEN Raise("KeyError")
         ELSE extract_pdf_section(arguments.file_path, arguments.start_page,
                                  arguments.end_page, exists)
    [] OTHER -> Raise("ValueError")

\* the rest of the handler call_tool awaits, from the return of subprocess.run
call_tool_result(name, arguments, ran) ==
  CASE name = "extract_pdf_text" ->
         extract_pdf_text_result(arguments.file_path.s, arguments.max_lines, ran)
    [] name = "extract_pdf_metadata" ->
         extract_pdf_metadata_result(arguments.file_path.s, ran)
    [] name = "extract_pdf_section" ->
         extract_pdf_section_result(arguments.file_path.s, arguments.start_page.i,
                                    arguments.end_page.i, ran)

(***************************************************************************)
(* The inputs: calls, the file system's answer to exists(), and what the   *)
(* external tools write.                                                   *)
(***************************************************************************)
Paths ==
  { <<"/", "a", ".", "p", "d", "f">>,
    <<"a", ".", "P", "D", "F">>,
    <<"~", "/", "a", ".", "t", "x", "t">>,
    <<"/", "a", ".", "t", "x", "t">>,
    <<"/", "a">>,
    <<"/", ".", "p", "d", "f">>,
    <<"/", "d", ".", "p", "d", "f", "/", "a">>,
    <<"~", "a", ".", "p", "d", "f", ".", "t">> }

FilePathValues == {Absent, IntV(0)} \cup {StrV(p) : p \in Paths}

MaxLinesValues ==
  {Absent, StrV(<<"2">>)} \cup {IntV(n) : n \in (0 - MaxLines)..MaxLines}

PageValues == {Absent, StrV(<<"1">>)} \cup {IntV(n) : n \in 0..MaxPage}

Arguments(fp, ml, sp, ep) ==
  [file_path |-> fp, max_lines |-> ml, start_page |-> sp, end_page |-> ep]

Call(name, arguments, exists) ==
  [name |-> name, arguments |-> arguments, exists |-> exists]

Calls ==
  {Call("extract_pdf_text", Arguments(fp, ml, Absent, Absent), e) :
     fp \in FilePathValues, ml \in MaxLinesValues, e \in BOOLEAN}
  \cup
  {Call("extract_pdf_metadata", Arguments(fp, Absent, Absent, Absent), e) :
     fp \in FilePathValues, e \in BOOLEAN}
  \cup
  {Call("extract_pdf_section", Arguments(fp, Absent, sp, ep), e) :
     fp \in FilePathValues, sp \in PageValues, ep \in PageValues, e \in BOOLEAN}
  \cup
  {Call("list_files", Arguments(fp, Absent, Absent, Absent), FALSE) :
     fp \in {Absent, StrV(<<"/", "a", ".", "p", "d", "f">>)}}

TextChars == {"A", NL}
InfoChars == {"k", ":", " ", NL}

TextOutputs == Strings(TextChars, MaxOut)
InfoOutputs == Strings(InfoChars, MaxInfo)

\* what the tool a call runs can write on stdout
Stdouts(name) == IF name = "extract_pdf_metadata" THEN InfoOutputs ELSE TextOutputs

Stderrs == {<<>>, <<"b", "a", "d">>}

ReturnCodes == {0, 1}

DecodeErrorText == <<"'utf-8' codec can't decode byte 0xff in position 0: invalid start byte">>

NoCall == Call("", Arguments(Absent, Absent, Absent, Absent), FALSE)

NoChild == [status |-> "none", returncode |-> 0, stdout |-> <<>>, stderr |-> <<>>]

(***************************************************************************)
(* The server: one call at a time.                                         *)
(*   pc      idle, waiting (inside subprocess.run), returned, raised       *)
(*   call    the call being handled                                        *)
(*   runs    subprocess.run calls made for it                              *)
(*   child   the external process and what it wrote                        *)
(*   result  the dict the handler returned, <<>> when there is none        *)
(*   exc     the exception call_tool raised, "none" when there is none     *)
(***************************************************************************)
Init ==
  /\ pc = "idle"
  /\ call = NoCall
  /\ runs = 0
  /\ child = NoChild
  /\ result = <<>>
  /\ exc = "none"

\* call_tool raises: unknown tool, missing key or ill-typed argument
CallRaises(c) ==
  /\ pc = "idle"
  /\ call_tool(c.name, c.arguments, c.exists).kind = "raise"
  /\ pc' = "raised"
  /\ call' = c
  /\ exc' = call_tool(c.name, c.arguments, c.exists).exc
  /\ UNCHANGED <<runs, child, result>>

\* the handler returns before it runs anything
CallRejected(c) ==
  /\ pc = "idle"
  /\ call_tool(c.name, c.arguments, c.exists).kind = "return"
  /\ pc' = "returned"
  /\ call' = c
  /\ result' = call_tool(c.name, c.arguments, c.exists).value
  /\ UNCHANGED <<runs, child, exc>>

\* subprocess.run starts the child and waits for it
CallSpawns(c) ==
  /\ pc = "idle"
  /\ call_tool(c.name, c.arguments, c.exists).kind = "run"
  /\ pc' = "waiting"
  /\ call' = c
  /\ runs' = runs + 1
  /\ child' = [NoChild EXCEPT !.status = "running"]
  /\ UNCHANGED <<result, exc>>

\* subprocess.run finds no executable: FileNotFoundError, no child
CallToolMissing(c) ==
  /\ pc = "idle"
  /\ call_tool(c.name, c.arguments, c.exists).kind = "run"
  /\ pc' = "returned"
  /\ call' = c
  /\ runs' = runs + 1
  /\ result' = call_tool_result(c.name, c.arguments, Raised("FileNotFoundError", <<>>))
  /\ UNCHANGED <<child, exc>>

\* the child exits within the timeout
ChildExits(rc, out, err) ==
  /\ pc = "waiting"
  /\ pc' = "returned"
  /\ child' = [status |-> "exited", returncode |-> rc, stdout |-> out, stderr |-> err]
  /\ result' = call_tool_result(call.name, call.arguments, Completed(rc, out, err))
  /\ UNCHANGED <<call, runs, exc>>

\* the timeout expires: subprocess.run kills the child and raises TimeoutExpired
TimeoutExpires ==
  /\ pc = "waiting"
  /\ pc' = "returned"
  /\ child' = [child EXCEPT !.status = "killed"]
  /\ LET o == call_tool(call.name, call.arguments, call.exists)
     IN  result' = call_tool_result(call.name, call.arguments,
                     Raised("TimeoutExpired", TimeoutText(o.value, o.timeout)))
  /\ UNCHANGED <<call, runs, exc>>

\* the child exits and its output is not text (text=True): UnicodeDecodeError
DecodeFails ==
  /\ pc = "waiting"
  /\ pc' = "returned"
  /\ child' = [child EXCEPT !.status = "undecodable"]
  /\ result' = call_tool_result(call.name, call.arguments,
                                Raised("Exception", DecodeErrorText))
  /\ UNCHANGED <<call, runs, exc>>

\* the transport sends the reply; nothing of the call is kept
Respond ==
  /\ pc \in {"returned", "raised"}
  /\ pc' = "idle"
  /\ call' = NoCall
  /\ runs' = 0
  /\ child' = NoChild
  /\ result' = <<>>
  /\ exc' = "none"

Next ==
  \/ \E c \in Calls : CallRaises(c)
  \/ \E c \in Calls : CallRejected(c)
  \/ \E c \in Calls : CallSpawns(c)
  \/ \E c \in Calls : CallToolMissing(c)
  \/ /\ pc = "waiting"
     /\ \E rc \in ReturnCodes, out \in Stdouts(call.name), err \in Stderrs :
          ChildExits(rc, out, err)
  \/ TimeoutExpires
  \/ DecodeFails
  \/ Respond

Spec == Init /\ [][Next]_vars

(***************************************************************************)
(* Properties.  They are stated from the inputs held in call and child,    *)
(* with definitions of their own rather than the handlers' helpers.        *)
(***************************************************************************)
Handled == pc \in {"waiting", "returned", "raised"}

IsError(r) == DOMAIN r = {"error"}
IsSuccess(r) == "success" \in DOMAIN r /\ r.success = TRUE

HasPath == call.arguments.file_path.t = "str"
ThePath == call.arguments.file_path.s

\* the resolved path ends in ".pdf" in any case, after at least one other
\* character of its final component
IsPdfName(p) ==
  LET r == Resolve(p)
      n == Len(r)
  IN  /\ n >= 5
      /\ r[n - 3] = "."
      /\ r[n - 2] \in {"p", "P"}
      /\ r[n - 1] \in {"d", "D"}
      /\ r[n] \in {"f", "F"}
      /\ r[n - 4] # "/"

PathValid == HasPath /\ call.exists /\ IsPdfName(ThePath)

\* call_tool found every argument the handler takes and entered the handler
EnteredHandler ==
  /\ Handled
  /\ call.name \in ToolNames
  /\ call.arguments.file_path.t # "absent"
  /\ call.name = "extract_pdf_section" =>
       (call.arguments.start_page.t # "absent" /\ call.arguments.end_page.t # "absent")

\* the child ran to its end, with exit code 0, and wrote text
ExitedZero == child.status = "exited" /\ child.returncode = 0

\* t occurs in s
Contains(s, t) ==
  \E i \in 0..(Len(s) - Len(t)) : SubSeq(s, i + 1, i + Len(t)) = t

GenericPrefixes == {"Error extracting PDF: ", "Error extracting metadata: "}

IsGeneric(r) == IsError(r) /\ Len(r.error) > 0 /\ r.error[1] \in GenericPrefixes

\* the index of the n-th c of s
NthPos(s, c, n) ==
  CHOOSE i \in DOMAIN s :
    s[i] = c /\ Cardinality({j \in 1..(i - 1) : s[j] = c}) = n - 1

Count(s, c) == Cardinality({i \in DOMAIN s : s[i] = c})

\* the j-th newline-delimited segment of s, j in 1 .. Count(s, NL) + 1
Segment(s, j) ==
  LET from == IF j = 1 THEN 1 ELSE NthPos(s, NL, j - 1) + 1
      to == IF j = Count(s, NL) + 1 THEN Len(s) ELSE NthPos(s, NL, j) - 1
  IN  SubSeq(s, from, to)

\* s up to, and without, its k-th newline; all of s when it has fewer
FirstSegments(s, k) ==
  IF k <= 0 THEN <<>>
  ELSE IF k > Count(s, NL) THEN s
  ELSE SubSeq(s, 1, NthPos(s, NL, k) - 1)

\* s without the blanks at its two ends
Trimmed(s) ==
  LET solid == {i \in DOMAIN s : s[i] # " "}
  IN  IF solid = {} THEN <<>>
      ELSE SubSeq(s, CHOOSE i \in solid : \A j \in solid : i <= j,
                     CHOOSE i \in solid : \A j \in solid : i >= j)

HasColon(l) == \E i \in DOMAIN l : l[i] = ":"
KeyOf(l) == Trimmed(SubSeq(l, 1, NthPos(l, ":", 1) - 1))
ValueOf(l) == Trimmed(SubSeq(l, NthPos(l, ":", 1) + 1, Len(l)))

\* the numbers of the segments of s that hold a colon
ColonSegments(s) == {j \in 1..(Count(s, NL) + 1) : HasColon(Segment(s, j))}

BadRangeCall ==
  /\ Handled
  /\ call.name = "extract_pdf_section"
  /\ HasPath
  /\ call.arguments.start_page.t = "int"
  /\ call.arguments.end_page.t = "int"
  /\ \/ call.arguments.start_page.i < 1
     \/ call.arguments.end_page.i < call.arguments.start_page.i

TextSucceeded ==
  pc = "returned" /\ call.name = "extract_pdf_text" /\ ExitedZero

\* C3 as stated: when stdout is n >= 1 lines, each ended by a newline, the
\* result without max_lines is the whole text with lines = n, and with
\* max_lines = k, 1 <= k <= n, the first k lines joined by newlines with
\* lines = k.
C3_Original ==
  LET out == child.stdout
      n == Count(out, NL)
      ml == call.arguments.max_lines
  IN  (TextSucceeded /\ Len(out) > 0 /\ out[Len(out)] = NL) =>
        /\ ml.t = "absent" => (result.text = out /\ result.lines = n)
        /\ (ml.t = "int" /\ 1 <= ml.i /\ ml.i <= n) =>
             (result.text = FirstSegments(out, ml.i) /\ result.lines = ml.i)

\* pdfinfo exited 0 for extract_pdf_metadata
MetaSucceeded ==
  pc = "returned" /\ call.name = "extract_pdf_metadata" /\ ExitedZero

\* C4: the metadata mapping has one entry per trimmed key of the stdout lines
\* that hold a colon (the key is what precedes the first colon), and its value
\* is the trimmed rest of the last such line with that key.
C4_MetadataParse ==
  MetaSucceeded =>
    LET out == child.stdout
        md == result.metadata
    IN  /\ IsSuccess(result)
        /\ DOMAIN md = {KeyOf(Segment(out, j)) : j \in ColonSegments(out)}
        /\ \A k \in DOMAIN md :
             LET js == {j \in ColonSegments(out) : KeyOf(Segment(out, j)) = k}
                 last == CHOOSE j \in js : \A i \in js : i <= j
             IN  md[k] = ValueOf(Segment(out, last))

\* C4 witness: two lines with the same key and different values, one line
\* without a colon
C4_Witness ==
  /\ MetaSucceeded
  /\ \E i, j \in ColonSegments(child.stdout) :
       /\ i < j
       /\ KeyOf(Segment(child.stdout, i)) = KeyOf(Segment(child.stdout, j))
       /\ ValueOf(Segment(child.stdout, i)) # ValueOf(Segment(child.stdout, j))
       /\ result.metadata[KeyOf(Segment(child.stdout, j))]
            = ValueOf(Segment(child.stdout, j))
  /\ ColonSegments(child.stdout) # 1..(Count(child.stdout, NL) + 1)

\* C5 as stated: call_tool raises if and only if the tool name is not one of
\* the three; for a known name every failure is a returned error dict.
C5_Original ==
  /\ pc = "raised" => call.name \notin ToolNames
  /\ (Handled /\ call.name \notin ToolNames) => pc = "raised"

\* C6 as stated: when the timeout expires the child is terminated and the call
\* returns an error of the Timeout kind, not the generic wrapping.
C6_Original ==
  (pc = "returned" /\ child.status = "killed") =>
    (IsError(result) /\ ~IsGeneric(result))

\* C7: a non-zero exit with stderr s gives an error dict whose message
\* contains s, whatever stdout holds.
C7_FailureCarriesStderr ==
  (pc = "returned" /\ child.status = "exited" /\ child.returncode # 0) =>
    (IsError(result) /\ Contains(result.error, child.stderr))

\* C7 witness: exit code 1, stderr "bad", a stdout that is not empty
C7_Witness ==
  /\ pc = "returned"
  /\ child.status = "exited"
  /\ child.returncode = 1
  /\ child.stderr = <<"b", "a", "d">>
  /\ Len(child.stdout) > 0
  /\ result = [error |-> <<"PDF extraction failed: ", "b", "a", "d">>]

\* subprocess.run was called and started no child: the executable is missing
ToolWasMissing == pc = "returned" /\ runs = 1 /\ child.status = "none"

Executable(name) == IF name = "extract_pdf_metadata" THEN "pdfinfo" ELSE "pdftotext"

\* C8: a missing executable gives a returned error dict that names the tool
\* and carries the install guidance, not the generic wrapping, and no raise.
C8_ToolMissingIsDistinct ==
  /\ ToolWasMissing =>
       /\ IsError(result)
       /\ result.error[1] = Executable(call.name)
       /\ Contains(result.error, <<InstallHint>>)
       /\ ~IsGeneric(result)
  /\ runs > 0 => pc # "raised"

\* C8 witness: pdfinfo is missing
C8_Witness ==
  /\ ToolWasMissing
  /\ call.name = "extract_pdf_metadata"
  /\ result = [error |-> <<"pdfinfo", InstallHint>>]

\* what C9 says of the result of a successful run for an int max_lines >= lo
C9_Statement(lo) ==
  LET out == child.stdout
      ml == call.arguments.max_lines
  IN  (TextSucceeded /\ ml.t # "str") =>
        /\ IsSuccess(result)
        /\ (ml.t = "absent" \/ ml.i = 0) => result.text = out
        /\ (ml.t = "int" /\ ml.i # 0 /\ ml.i >= lo) =>
             /\ result.text = FirstSegments(out, ml.i)
             /\ result.lines <= ml.i

\* C9 as stated: for every integer max_lines other than 0 the text is the
\* first max_lines segments of stdout and lines never exceeds max_lines.
C9_Original == C9_Statement(0 - MaxLines)

\* C9 amended: the same for every integer max_lines >= 1; absent or 0 leaves
\* stdout unchanged.  (A negative max_lines drops segments from the end.)
C9_TruncationForPositive == C9_Statement(1)

\* C9 witness: three lines cut to two
C9_Witness ==
  /\ TextSucceeded
  /\ child.stdout = <<"A", NL, "A", NL, "A", NL>>
  /\ call.arguments.max_lines = IntV(2)
  /\ result.text = <<"A", NL, "A">>
  /\ result.lines = 2

\* the arguments pass every check the handler makes before subprocess.run
ValidationPasses ==
  /\ call.name \in ToolNames
  /\ PathValid
  /\ call.name = "extract_pdf_section" =>
       /\ call.arguments.start_page.t = "int"
       /\ call.arguments.end_page.t = "int"
       /\ call.arguments.start_page.i >= 1
       /\ call.arguments.end_page.i >= call.arguments.start_page.i

C10_State ==
  /\ runs <= 1
  /\ Handled => (runs = 1 <=> ValidationPasses)
  /\ ~Handled => runs = 0
  /\ pc = "returned" =>
       /\ Cardinality(DOMAIN result \cap {"error", "success"}) = 1
       /\ IsSuccess(result) => (runs = 1 /\ ExitedZero)
  /\ pc # "returned" => result = <<>>

\* C10: a call runs subprocess.run once when validation passes and never
\* otherwise, never again after a failure or a timeout, returns success only
\* when that process exited 0, and every result has exactly one of the keys
\* error and success.
C10_OneRunPerCall ==
  /\ []C10_State
  /\ [][Handled => runs' <= runs]_vars

\* C10 witness: a timed-out call has run one process and returns an error
C10_Witness ==
  /\ pc = "returned"
  /\ child.status = "killed"
  /\ runs = 1
  /\ IsError(result)

====
